---- MODULE Spec2Model ----
(***************************************************************************)
(* Model of the print monitoring core: PrintMonitor (analysis/monitor.js,  *)
(* kept as src/unnamed/part_006) and SpaghettiDetector (analysis/          *)
(* quality.js).                                                            *)
(*                                                                         *)
(* Numbers.  Sensor values are integers.  Z positions are integers in      *)
(* tenths of a millimetre.  Times are integer milliseconds counted from    *)
(* the construction of the monitor.  Risk scores and confidences are exact *)
(* fractions [n, d] with d > 0.                                            *)
(***************************************************************************)
EXTENDS Integers, Sequences, FiniteSets, TLC

\* ------------------------------------------------------------------------
\* Bounds of the model (not program constants)
\* ------------------------------------------------------------------------
MaxSamples == 1
MaxPositions == 2
MaxSessions == 2
MaxNow == 3660000
MaxDetections == 1
MaxFed == 103
MaxLongPositions == 2
MaxLongSessions == 1
MaxEvals == 60
MaxRiskFeedback == 2
MaxFeedback == 4
MaxCadenceUpdates == 3
MaxThresholdUpdates == 1
MaxQualitySamples == 2
MaxWindow == 12

\* ------------------------------------------------------------------------
\* Program constants
\* ------------------------------------------------------------------------
BufferLimit == 100
HistoryLimit == 50
OneHour == 60 * 60 * 1000
Minute == 60 * 1000
NoTime == -1

\* ------------------------------------------------------------------------
\* Arithmetic helpers
\* ------------------------------------------------------------------------
Min(a, b) == IF a < b THEN a ELSE b

RECURSIVE GCD(_, _)
GCD(a, b) == IF b = 0 THEN a ELSE GCD(b, a % b)

\* the fraction n/d in lowest terms
Rat(n, d) ==
  LET g == GCD(IF n < 0 THEN -n ELSE n, d)
  IN  IF n = 0 THEN [n |-> 0, d |-> 1] ELSE [n |-> n \div g, d |-> d \div g]

RatGT(a, b) == a.n * b.d > b.n * a.d

RatMin(a, b) == IF RatGT(a, b) THEN b ELSE a

RECURSIVE SumSeq(_)
SumSeq(s) == IF s = <<>> THEN 0 ELSE Head(s) + SumSeq(Tail(s))

RECURSIVE SumSq(_)
SumSq(s) == IF s = <<>> THEN 0 ELSE Head(s) * Head(s) + SumSq(Tail(s))

\* Array.prototype.slice(-n)
LastN(s, n) == IF Len(s) <= n THEN s ELSE SubSeq(s, Len(s) - n + 1, Len(s))

\* ------------------------------------------------------------------------
\* SpaghettiDetector: pure functions (src/src/analysis/quality.js)
\* ------------------------------------------------------------------------

\* calculateVariation returns the population standard deviation; the model
\* carries its square, the population variance, as an exact fraction.
calculateVariation(data) ==
  LET len == Len(data)
  IN  IF len = 0 THEN Rat(0, 1)
      ELSE Rat(len * SumSq(data) - SumSeq(data) * SumSeq(data), len * len)

\* sqrt(variance) > t  for an integer t >= 0
VariationGT(data, t) == RatGT(calculateVariation(data), Rat(t * t, 1))

\* riskZones / safeZones weights, in units of 1/200
riskZones ==
  [overhangs |-> 180, bridges |-> 160, smallFeatures |-> 140, firstLayers |-> 190]

\* 1 - weight of a safe zone, as a fraction
safeZones ==
  [solidInfill |-> [n |-> 9, d |-> 10], supported |-> [n |-> 9, d |-> 10]]

\* layerData: [overhangs, bridges, smallFeatures : Int, solidInfill : percent,
\*             supportMaterial : BOOLEAN]; the layer's entry of gcodeAnalysis
calculateRiskScore(layerData, currentLayer) ==
  LET r0 == 0
      w0 == 0
      hasO == layerData.overhangs > 0
      r1 == IF hasO THEN r0 + (Min(layerData.overhangs, 10) * riskZones.overhangs) \div 10 ELSE r0
      w1 == IF hasO THEN w0 + riskZones.overhangs ELSE w0
      hasB == layerData.bridges > 0
      r2 == IF hasB THEN r1 + (Min(layerData.bridges, 5) * riskZones.bridges) \div 5 ELSE r1
      w2 == IF hasB THEN w1 + riskZones.bridges ELSE w1
      first == currentLayer <= 3
      r3 == IF first THEN r2 + riskZones.firstLayers ELSE r2
      w3 == IF first THEN w2 + riskZones.firstLayers ELSE w2
      hasS == layerData.smallFeatures > 0
      r4 == IF hasS THEN r3 + (Min(layerData.smallFeatures, 20) * riskZones.smallFeatures) \div 20 ELSE r3
      weightSum == IF hasS THEN w3 + riskZones.smallFeatures ELSE w3
      f1 == IF layerData.solidInfill > 80 THEN safeZones.solidInfill ELSE [n |-> 1, d |-> 1]
      f2 == IF layerData.supportMaterial THEN safeZones.supported ELSE [n |-> 1, d |-> 1]
      totalRisk == Rat(r4 * f1.n * f2.n, f1.d * f2.d)
  IN  IF weightSum > 0
        THEN RatMin(Rat(totalRisk.n, totalRisk.d * weightSum), Rat(1, 1))
        ELSE Rat(0, 1)

\* sensorData: [vibration, temperature, filamentFlow : Seq(Int)]
analyzeSensorPatterns(sensorData) ==
  LET recentVibration == LastN(sensorData.vibration, 10)
      vibSum == SumSeq(recentVibration)
      Spike(v) == v * Len(recentVibration) > 2 * vibSum
      vibrationSpikes == Len(SelectSeq(recentVibration, Spike))
      vibAlerts ==
        IF Len(sensorData.vibration) > 10 /\ vibrationSpikes > 3
          THEN << [type |-> "vibration_anomaly", severity |-> "high", confidence |-> 80] >>
          ELSE << >>
      recentTemp == LastN(sensorData.temperature, 5)
      tempAlerts ==
        IF Len(sensorData.temperature) > 5 /\ VariationGT(recentTemp, 8)
          THEN << [type |-> "temperature_instability", severity |-> "medium", confidence |-> 60] >>
          ELSE << >>
      recentFlow == LastN(sensorData.filamentFlow, 5)
      flowSum == SumSeq(recentFlow)
      flowLen == Len(recentFlow)
      hasFlow == Len(sensorData.filamentFlow) > 5
      lowFlow ==
        IF hasFlow /\ flowSum < 100 * flowLen
          THEN << [type |-> "low_flow", severity |-> "high", confidence |-> 90] >>
          ELSE << >>
      \* flowVariation > avgFlow * 0.5
      erratic ==
        IF hasFlow /\ (flowSum < 0
                       \/ 4 * (flowLen * SumSq(recentFlow) - flowSum * flowSum) > flowSum * flowSum)
          THEN << [type |-> "erratic_flow", severity |-> "medium", confidence |-> 70] >>
          ELSE << >>
  IN  vibAlerts \o tempAlerts \o lowFlow \o erratic

\* cameraData: [lastSnapshot : BOOLEAN]; random: Math.random() in percent.
\* The result is visualAnalysis.confidence in hundredths.
analyzeVisualPatterns(cameraData, random) ==
  IF ~cameraData.lastSnapshot THEN 0
  ELSE LET sum == (IF random > 80 THEN 75 ELSE 0) + (IF random > 90 THEN 85 ELSE 0)
           cnt == (IF random > 80 THEN 1 ELSE 0) + (IF random > 90 THEN 1 ELSE 0)
       IN  IF cnt > 0 THEN sum \div cnt ELSE 0

identifyRiskFactors(layerData, currentLayer) ==
  (IF currentLayer <= 3 THEN << [factor |-> "first_layers", risk |-> "high"] >> ELSE << >>)
  \o (IF layerData.overhangs > 0
        THEN << [factor |-> "overhangs_present",
                 risk |-> IF layerData.overhangs > 5 THEN "high" ELSE "medium"] >>
        ELSE << >>)
  \o (IF layerData.bridges > 0
        THEN << [factor |-> "bridges_present",
                 risk |-> IF layerData.bridges > 3 THEN "high" ELSE "medium"] >>
        ELSE << >>)
  \o (IF layerData.smallFeatures > 10
        THEN << [factor |-> "small_features", risk |-> "medium"] >> ELSE << >>)
  \o (IF layerData.solidInfill > 80
        THEN << [factor |-> "solid_infill", risk |-> "low"] >> ELSE << >>)
  \o (IF layerData.supportMaterial
        THEN << [factor |-> "support_present", risk |-> "low"] >> ELSE << >>)

\* getHistoricalAccuracy with the default 1 in place of 0.8
getHistoricalAccuracy_defaultOne(tp, fp) ==
  LET total == tp + fp
  IN  IF total = 0 THEN Rat(1, 1) ELSE Rat(tp, total)

getHistoricalAccuracy(tp, fp) ==
  LET total == tp + fp
  IN  IF total = 0 THEN Rat(8, 10) ELSE Rat(tp, total)

IsHigh(a) == a.severity = "high"

IsMedium(a) == a.severity = "medium"

\* calculateConfidence without the final Math.min(confidence, 1)
calculateConfidence_unclamped(riskScore, sensorAlerts, visual, tp, fp) ==
  LET high == Cardinality({i \in 1..Len(sensorAlerts) : sensorAlerts[i].severity = "high"})
      medium == Cardinality({i \in 1..Len(sensorAlerts) : sensorAlerts[i].severity = "medium"})
      total == tp + fp
      accuracy == IF total = 0 THEN Rat(8, 10) ELSE Rat(tp, total)
      base == Rat(400 * riskScore.n + (300 * high + 100 * medium + 2 * visual) * riskScore.d,
                  1000 * riskScore.d)
  IN  Rat(base.n * accuracy.n, base.d * accuracy.d)

\* calculateConfidence without the historical accuracy factor
calculateConfidence_ignoresAccuracy(riskScore, sensorAlerts, visual, tp, fp) ==
  LET high == Len(SelectSeq(sensorAlerts, IsHigh))
      medium == Len(SelectSeq(sensorAlerts, IsMedium))
      base == Rat(400 * riskScore.n + (300 * high + 100 * medium + 2 * visual) * riskScore.d,
                  1000 * riskScore.d)
  IN  RatMin(base, Rat(1, 1))

\* visual: visualAnalysis.confidence in hundredths
calculateConfidence(riskScore, sensorAlerts, visual, tp, fp) ==
  LET high == Len(SelectSeq(sensorAlerts, IsHigh))
      medium == Len(SelectSeq(sensorAlerts, IsMedium))
      \* riskScore * 0.4 + high * 0.3 + medium * 0.1 + visual * 0.2, over 1000 * d
      base == Rat(400 * riskScore.n + (300 * high + 100 * medium + 2 * visual) * riskScore.d,
                  1000 * riskScore.d)
      accuracy == getHistoricalAccuracy(tp, fp)
      confidence == Rat(base.n * accuracy.n, base.d * accuracy.d)
  IN  RatMin(confidence, Rat(1, 1))

\* generateRecommendation looking at the risk score only
generateRecommendation_ignoresAlerts(riskScore, sensorAlerts) ==
  IF RatGT(riskScore, Rat(8, 10))
    THEN "immediate_intervention"
  ELSE IF RatGT(riskScore, Rat(5, 10))
    THEN "monitor_closely"
  ELSE "continue_monitoring"

generateRecommendation(riskScore, sensorAlerts) ==
  IF RatGT(riskScore, Rat(8, 10)) \/ Len(SelectSeq(sensorAlerts, IsHigh)) > 0
    THEN "immediate_intervention"
  ELSE IF RatGT(riskScore, Rat(5, 10))
    THEN "monitor_closely"
  ELSE "continue_monitoring"

\* The Detection built by analyzeCurrentPrint (before it is pushed).
Detection(cameraData, random, sensorData, layerData, currentLayer, tp, fp, time) ==
  LET riskScore == calculateRiskScore(layerData, currentLayer)
      sensorAlerts == analyzeSensorPatterns(sensorData)
      visual == analyzeVisualPatterns(cameraData, random)
  IN  [timestamp |-> time,
       layer |-> currentLayer,
       riskScore |-> riskScore,
       confidence |-> calculateConfidence(riskScore, sensorAlerts, visual, tp, fp),
       alerts |-> sensorAlerts,
       riskFactors |-> identifyRiskFactors(layerData, currentLayer),
       recommendation |-> generateRecommendation(riskScore, sensorAlerts)]

\* getQualityGrade with strict comparisons
getQualityGrade_strict(score) ==
  IF score > 90000 THEN "Excellent"
  ELSE IF score > 80000 THEN "Good"
  ELSE IF score > 70000 THEN "Fair"
  ELSE IF score > 60000 THEN "Poor"
  ELSE "Critical"

\* QualityAnalyzer.getQualityGrade; score in thousandths of a point
getQualityGrade(score) ==
  IF score >= 90000 THEN "Excellent"
  ELSE IF score >= 80000 THEN "Good"
  ELSE IF score >= 70000 THEN "Fair"
  ELSE IF score >= 60000 THEN "Poor"
  ELSE "Critical"

\* the largest r in lo..hi with r * r <= x
RECURSIVE SqrtBetween(_, _, _)
SqrtBetween(x, lo, hi) ==
  IF lo >= hi THEN lo
  ELSE LET mid == (lo + hi + 1) \div 2
       IN  IF mid * mid <= x THEN SqrtBetween(x, mid, hi) ELSE SqrtBetween(x, lo, mid - 1)

\* QualityAnalyzer.calculateVariation: the population standard deviation of
\* data, in whole units.  It is exact when the variance is a perfect square,
\* and rounded down otherwise.
variationUnits(data) ==
  LET len == Len(data)
      d == len * SumSq(data) - SumSeq(data) * SumSeq(data)
  IN  IF len = 0 THEN 0 ELSE SqrtBetween(d, 0, Min(d, 46340)) \div len

\* a JavaScript number: NaN, or a value in thousandths
NaN == [nan |-> TRUE, v |-> 0]

Num(v) == [nan |-> FALSE, v |-> v]

\* x || d : NaN and 0 are falsy
OrElse(x, d) == IF x.nan \/ x.v = 0 THEN d ELSE x.v

\* tempAnalysis.stability = 100 - tempVariation * 10, in thousandths
temperatureStability(temperatures) == 100000 - 10000 * variationUnits(temperatures)

\* vibAnalysis.score = Math.max(0, 100 - avgVibration), in thousandths (rounded
\* down); the average of an empty history is 0 / 0 = NaN
vibrationScore(vibration) ==
  IF vibration = << >> THEN NaN
  ELSE LET score == 100000 - (SumSeq(vibration) * 1000) \div Len(vibration)
       IN  Num(IF score < 0 THEN 0 ELSE score)

\* layerAnalysis.score with gCodeData = []: the layer heights default to
\* [0.2], so only the flow variation can lower the score
layerQualityScore(filamentFlow) ==
  IF VariationGT(filamentFlow, 10) THEN 85000 ELSE 100000

\* QualityAnalyzer.generateQualityReport(printerData, sensorData, []): the
\* score, the grade and the metrics of the report (its issues and
\* recommendations are left out).  overallScore is in points, the metrics in
\* thousandths of a point.
generateQualityReport(temperatures, vibration, filamentFlow) ==
  LET stability == temperatureStability(temperatures)
      vib == vibrationScore(vibration)
      layer == layerQualityScore(filamentFlow)
      \* scores = [stability || 100, score || 100, score || 100]
      total == OrElse(Num(stability), 100000) + OrElse(vib, 100000)
               + OrElse(Num(layer), 100000)
  IN  [overallScore |-> (total + 1500) \div 3000,
       grade |-> getQualityGrade(total \div 3),
       metrics |-> [temperatureStability |-> OrElse(Num(stability), 0),
                    vibrationLevel |-> OrElse(vib, 0),
                    layerQuality |-> OrElse(Num(layer), 0)]]

\* PushDetection keeping the first 50 detections instead of the last 50
PushDetection_keepOldest(history, detection) ==
  LET pushed == Append(history, detection)
  IN  IF Len(pushed) > HistoryLimit THEN SubSeq(pushed, 1, HistoryLimit) ELSE pushed

\* detectionHistory.push(detection); keep the last 50
PushDetection(history, detection) ==
  LET pushed == Append(history, detection)
  IN  IF Len(pushed) > HistoryLimit THEN LastN(pushed, HistoryLimit) ELSE pushed

\* ------------------------------------------------------------------------
\* PrintMonitor state (src/unnamed/part_006) and SpaghettiDetector state
\* ------------------------------------------------------------------------
VARIABLES
  isMonitoring,      \* PrintMonitor.isMonitoring
  currentPrint,      \* reference to the current session object: 0 is null,
                     \* otherwise an index into sessions
  sessions,          \* every session object startMonitoring has created
  dataBuffer,        \* PrintMonitor.dataBuffer
  recorded,          \* per channel, every value pushed since the session began
  alerts,            \* PrintMonitor.alerts
  currentLayer,      \* PrintMonitor.currentLayer
  detectionHistory,  \* SpaghettiDetector.detectionHistory
  truePositives,     \* SpaghettiDetector.truePositives
  falsePositives,    \* SpaghettiDetector.falsePositives
  now,               \* Date.now()
  ret                \* the last event: the call made and the value it returned

vars == << isMonitoring, currentPrint, sessions, dataBuffer, recorded, alerts,
           currentLayer, detectionHistory, truePositives, falsePositives, now, ret >>

\* everything but the clock and the call record
progVars == << isMonitoring, currentPrint, sessions, dataBuffer, recorded, alerts,
               currentLayer, detectionHistory, truePositives, falsePositives >>

Channels == {"temperature", "vibration", "filamentFlow", "positions"}

Undefined == [kind |-> "undefined"]

Null == [kind |-> "null"]

\* clearDataBuffer: every channel becomes []
clearDataBuffer == [key \in Channels |-> << >>]

\* Math.floor(currentZ / 0.2) for currentZ = z / 10.  For the z listed in
\* FloorShort the IEEE-754 quotient falls just below the integer z / 2
\* (0.6 / 0.2 = 2.9999999999999996), so the floor is one less.
FloorShort == {6, 12, 14, 24, 28, 38, 46, 48, 56, 58, 66, 76, 82, 86, 92, 96,
               102, 106, 112, 116, 122, 126, 132, 142, 152, 162, 164, 172, 174,
               182, 184, 192, 194, 202, 204}

LayerOf(z) == IF z \in FloorShort THEN (z \div 2) - 1 ELSE z \div 2

\* Math.round(Math.min(100, (currentZ / 200) * 100)) for currentZ = z / 10
\* (Math.round rounds halves up)
\* (Math.round rounds halves up).  For the z listed in RoundShort the IEEE-754
\* product falls just below the half (29 / 200 * 100 = 14.499999999999998).
RoundShort == {-70, 290, 570, 1130, 1150}

ProgressOf(z) ==
  IF z \in RoundShort THEN ((z + 10) \div 20) - 1 ELSE Min(100, (z + 10) \div 20)

\* checkRealTimeAlerts with inclusive thresholds
checkRealTimeAlerts_inclusive(data, al, status, time) ==
  LET Has(f) == f \in DOMAIN data
      a1 == IF Has("temperature") /\ data.temperature >= 250
              THEN << [type |-> "warning", message |-> "High temperature detected",
                       value |-> data.temperature, timestamp |-> time] >>
              ELSE << >>
      a2 == IF Has("temperature") /\ data.temperature <= 180 /\ status = "printing"
              THEN << [type |-> "error", message |-> "Temperature drop detected",
                       value |-> data.temperature, timestamp |-> time] >>
              ELSE << >>
      a3 == IF Has("vibration") /\ data.vibration >= 80
              THEN << [type |-> "warning", message |-> "Excessive vibration detected",
                       value |-> data.vibration, timestamp |-> time] >>
              ELSE << >>
      a4 == IF Has("filamentFlow") /\ data.filamentFlow <= 100
              THEN << [type |-> "error", message |-> "Possible filament jam or runout",
                       value |-> data.filamentFlow, timestamp |-> time] >>
              ELSE << >>
      added == al \o a1 \o a2 \o a3 \o a4
      oneHourAgo == time - OneHour
      Recent(alert) == alert.timestamp > oneHourAgo
  IN  SelectSeq(added, Recent)

\* checkRealTimeAlerts: the alert list after the threshold checks and the
\* pruning.  status is this.currentPrint.status.
checkRealTimeAlerts(data, al, status, time) ==
  LET Has(f) == f \in DOMAIN data
      a1 == IF Has("temperature") /\ data.temperature > 250
              THEN << [type |-> "warning", message |-> "High temperature detected",
                       value |-> data.temperature, timestamp |-> time] >>
              ELSE << >>
      a2 == IF Has("temperature") /\ data.temperature < 180 /\ status = "printing"
              THEN << [type |-> "error", message |-> "Temperature drop detected",
                       value |-> data.temperature, timestamp |-> time] >>
              ELSE << >>
      a3 == IF Has("vibration") /\ data.vibration > 80
              THEN << [type |-> "warning", message |-> "Excessive vibration detected",
                       value |-> data.vibration, timestamp |-> time] >>
              ELSE << >>
      a4 == IF Has("filamentFlow") /\ data.filamentFlow < 100
              THEN << [type |-> "error", message |-> "Possible filament jam or runout",
                       value |-> data.filamentFlow, timestamp |-> time] >>
              ELSE << >>
      added == al \o a1 \o a2 \o a3 \o a4
      oneHourAgo == time - OneHour
      Recent(alert) == alert.timestamp > oneHourAgo
  IN  SelectSeq(added, Recent)

\* One outcome of the Math.random() calls of a runSpaghettiDetection:
\* overhangs = floor(random * 3), bridges = floor(random * 2),
\* smallFeatures = floor(random * 5); solidInfill, support and visual are
\* the raw random numbers in percent.
AllDraws(layer) ==
  [overhangs : IF layer > 10 THEN 0..2 ELSE {0},
   bridges : IF layer > 15 THEN 0..1 ELSE {0},
   smallFeatures : 0..4,
   solidInfill : {50, 90},
   support : {50, 90},
   visual : {50, 85, 95}]

\* the outcomes the small specifications draw from
SampleDraws(layer) ==
  { d \in AllDraws(layer) :
      \/ d.smallFeatures = 0 /\ d.solidInfill = 50 /\ d.support = 50 /\ d.visual = 50
                             /\ d.overhangs = 0 /\ d.bridges = 0
      \/ d.smallFeatures = 4 /\ d.solidInfill = 90 /\ d.support = 90 /\ d.visual = 95
                             /\ d.overhangs = (IF layer > 10 THEN 2 ELSE 0)
                             /\ d.bridges = (IF layer > 15 THEN 1 ELSE 0) }

NoDraw ==
  [overhangs |-> 0, bridges |-> 0, smallFeatures |-> 0, solidInfill |-> 0,
   support |-> 0, visual |-> 0]

\* runSpaghettiDetection alerting from the moderate-risk threshold on
runSpaghettiDetection_moderate(layer, buf, hist, al, tp, fp, time, draw) ==
  LET layerData ==
        [overhangs |-> IF layer > 10 THEN draw.overhangs ELSE 0,
         bridges |-> IF layer > 15 THEN draw.bridges ELSE 0,
         smallFeatures |-> draw.smallFeatures,
         solidInfill |-> draw.solidInfill,
         supportMaterial |-> draw.support > 70]
      detection ==
        Detection([lastSnapshot |-> TRUE], draw.visual,
                  [vibration |-> buf.vibration, temperature |-> buf.temperature,
                   filamentFlow |-> buf.filamentFlow],
                  layerData, layer, tp, fp, time)
  IN  [history |-> PushDetection(hist, detection),
       alerts |->
         IF RatGT(detection.confidence, Rat(4, 10))
           THEN Append(al, [type |-> "spaghetti_risk",
                            confidence |-> detection.confidence,
                            recommendation |-> detection.recommendation,
                            timestamp |-> time])
           ELSE al]

\* runSpaghettiDetection: the detection history and the alert list after it
runSpaghettiDetection(layer, buf, hist, al, tp, fp, time, draw) ==
  LET layerData ==
        [overhangs |-> IF layer > 10 THEN draw.overhangs ELSE 0,
         bridges |-> IF layer > 15 THEN draw.bridges ELSE 0,
         smallFeatures |-> draw.smallFeatures,
         solidInfill |-> draw.solidInfill,
         supportMaterial |-> draw.support > 70]
      detection ==
        Detection([lastSnapshot |-> TRUE], draw.visual,
                  [vibration |-> buf.vibration, temperature |-> buf.temperature,
                   filamentFlow |-> buf.filamentFlow],
                  layerData, layer, tp, fp, time)
  IN  [history |-> PushDetection(hist, detection),
       alerts |->
         IF RatGT(detection.confidence, Rat(7, 10))
           THEN Append(al, [type |-> "spaghetti_risk",
                            confidence |-> detection.confidence,
                            recommendation |-> detection.recommendation,
                            timestamp |-> time])
           ELSE al]

\* the layer-based cadence of updateLayerTracking
LayerEvaluationDue(newLayer, layer) ==
  newLayer > layer /\ (newLayer <= 5 \/ newLayer % 20 = 0)

\* the critical-layer test with a period of 10 layers
isCriticalLayer_everyTen(newLayer) == newLayer <= 5 \/ newLayer % 10 = 0

\* "Run spaghetti detection on critical layers"
isCriticalLayer(newLayer) == newLayer <= 5 \/ newLayer % 20 = 0

\* updateLayerTracking following the position on every change of layer
updateLayerTracking_anyChange(currentZ, layer, buf, hist, al, tp, fp, time, draw) ==
  LET newLayer == LayerOf(currentZ)
  IN  IF newLayer # layer
        THEN [layer |-> newLayer, history |-> hist, alerts |-> al, evaluated |-> FALSE]
        ELSE [layer |-> layer, history |-> hist, alerts |-> al, evaluated |-> FALSE]

\* updateLayerTracking: the layer, detection history and alert list after it,
\* and whether it called runSpaghettiDetection
updateLayerTracking(currentZ, layer, buf, hist, al, tp, fp, time, draw) ==
  LET newLayer == LayerOf(currentZ)
  IN  IF newLayer > layer
        THEN IF isCriticalLayer(newLayer)
               THEN [layer |-> newLayer, evaluated |-> TRUE] @@
                    runSpaghettiDetection(newLayer, buf, hist, al, tp, fp, time, draw)
               ELSE [layer |-> newLayer, history |-> hist, alerts |-> al,
                     evaluated |-> FALSE]
        ELSE [layer |-> layer, history |-> hist, alerts |-> al, evaluated |-> FALSE]

\* generateFinalReport for the session object print (Null when there is none)
generateFinalReport(cur, allSessions, buf, al) ==
  IF cur = 0 THEN Null
  ELSE generateQualityReport(buf.temperature, buf.vibration, buf.filamentFlow) @@
       [kind |-> "finalReport",
        print |-> allSessions[cur],
        totalRuntime |-> allSessions[cur].endTime - allSessions[cur].startTime,
        totalAlerts |-> Len(al),
        dataCollected |-> [temperatureReadings |-> Len(buf.temperature),
                           vibrationReadings |-> Len(buf.vibration),
                           filamentReadings |-> Len(buf.filamentFlow)]]

\* ------------------------------------------------------------------------
\* Operations
\* ------------------------------------------------------------------------
Init ==
  /\ isMonitoring = FALSE
  /\ currentPrint = 0
  /\ sessions = << >>
  /\ dataBuffer = clearDataBuffer
  /\ recorded = clearDataBuffer
  /\ alerts = << >>
  /\ currentLayer = 0
  /\ detectionHistory = << >>
  /\ truePositives = 0
  /\ falsePositives = 0
  /\ now = 0
  /\ ret = [op |-> "constructor", value |-> Undefined]

\* startMonitoring without  this.alerts = []
startMonitoring_keepsAlerts(printJob) ==
  /\ isMonitoring' = TRUE
  /\ sessions' = Append(sessions,
       [id |-> now,
        name |-> IF printJob.name = "" THEN "Unknown" ELSE printJob.name,
        startTime |-> now,
        endTime |-> NoTime,
        status |-> "printing",
        progress |-> 0])
  /\ currentPrint' = Len(sessions) + 1
  /\ dataBuffer' = clearDataBuffer
  /\ recorded' = clearDataBuffer
  /\ ret' = [op |-> "startMonitoring", value |-> [kind |-> "id", id |-> now]]
  /\ UNCHANGED << alerts, currentLayer, detectionHistory, truePositives,
                  falsePositives, now >>

startMonitoring(printJob) ==
  /\ isMonitoring' = TRUE
  /\ sessions' = Append(sessions,
       [id |-> now,
        name |-> IF printJob.name = "" THEN "Unknown" ELSE printJob.name,
        startTime |-> now,
        endTime |-> NoTime,
        status |-> "printing",
        progress |-> 0])
  /\ currentPrint' = Len(sessions) + 1
  /\ dataBuffer' = clearDataBuffer
  /\ recorded' = clearDataBuffer
  /\ alerts' = << >>
  /\ ret' = [op |-> "startMonitoring", value |-> [kind |-> "id", id |-> now]]
  /\ UNCHANGED << currentLayer, detectionHistory, truePositives, falsePositives, now >>

\* stopMonitoring that sets the end time but leaves the status 'printing'
stopMonitoring_keepsStatus ==
  /\ sessions' = IF currentPrint # 0
                   THEN [sessions EXCEPT ![currentPrint].endTime = now]
                   ELSE sessions
  /\ isMonitoring' = FALSE
  /\ ret' = [op |-> "stopMonitoring",
             value |-> generateFinalReport(currentPrint, sessions', dataBuffer, alerts)]
  /\ UNCHANGED << currentPrint, dataBuffer, recorded, alerts, currentLayer,
                  detectionHistory, truePositives, falsePositives, now >>

\* stopMonitoring that finalizes the session but leaves isMonitoring set
stopMonitoring_staysMonitoring ==
  /\ sessions' = IF currentPrint # 0
                   THEN [sessions EXCEPT ![currentPrint].endTime = now,
                                         ![currentPrint].status = "completed"]
                   ELSE sessions
  /\ ret' = [op |-> "stopMonitoring",
             value |-> generateFinalReport(currentPrint, sessions', dataBuffer, alerts)]
  /\ UNCHANGED << isMonitoring, currentPrint, dataBuffer, recorded, alerts, currentLayer,
                  detectionHistory, truePositives, falsePositives, now >>

stopMonitoring ==
  /\ sessions' = IF currentPrint # 0
                   THEN [sessions EXCEPT ![currentPrint].endTime = now,
                                         ![currentPrint].status = "completed"]
                   ELSE sessions
  /\ isMonitoring' = FALSE
  /\ ret' = [op |-> "stopMonitoring",
             value |-> generateFinalReport(currentPrint, sessions', dataBuffer, alerts)]
  /\ UNCHANGED << currentPrint, dataBuffer, recorded, alerts, currentLayer,
                  detectionHistory, truePositives, falsePositives, now >>

\* TrimBuffer keeping the first 100 entries instead of the last 100
TrimBuffer_keepOldest(buf) ==
  [key \in Channels |->
     IF Len(buf[key]) > BufferLimit THEN SubSeq(buf[key], 1, BufferLimit) ELSE buf[key]]

\* "Keep buffer size manageable (last 100 readings)": every channel longer
\* than 100 is cut to its last 100 entries
TrimBuffer(buf) ==
  [key \in Channels |->
     IF Len(buf[key]) > BufferLimit THEN LastN(buf[key], BufferLimit) ELSE buf[key]]

\* if (!this.isMonitoring) return;  of updateSensorData
SensorDataIgnored == ~isMonitoring

\* updatePrinterData without its guard
PrinterDataIgnored_never == FALSE

\* if (!this.isMonitoring) return;  of updatePrinterData
PrinterDataIgnored == ~isMonitoring

\* sensorData: a record with any of the fields temperature, vibration,
\* filamentFlow
updateSensorData(sensorData) ==
  /\ ret' = [op |-> "updateSensorData", value |-> Undefined]
  /\ IF SensorDataIgnored
       THEN UNCHANGED << isMonitoring, currentPrint, sessions, dataBuffer, recorded,
                         alerts, currentLayer, detectionHistory, truePositives,
                         falsePositives, now >>
       ELSE LET Push(buf) ==
                  [key \in Channels |->
                     IF key \in DOMAIN sensorData
                       THEN Append(buf[key], sensorData[key]) ELSE buf[key]]
                pushed == Push(dataBuffer)
            IN  /\ dataBuffer' = TrimBuffer(pushed)
                /\ recorded' = Push(recorded)
                /\ alerts' = checkRealTimeAlerts(sensorData, alerts,
                                                 sessions[currentPrint].status, now)
                /\ UNCHANGED << isMonitoring, currentPrint, sessions, currentLayer,
                                detectionHistory, truePositives, falsePositives, now >>

\* dataBuffer.temperature.push(hotend) placing the reading first
pushHotend_front(buf, hotend) == [buf EXCEPT !.temperature = << hotend >> \o @]

\* this.dataBuffer.temperature.push(printerData.temperature.hotend)
pushHotend(buf, hotend) == [buf EXCEPT !.temperature = Append(@, hotend)]

\* printerData: a record with any of the fields position ([x, y, z]) and
\* temperature ([hotend, bed]); draw1 and draw2 are the random outcomes of
\* the layer-based and of the second evaluation, when they run.  ret.ran
\* lists the calls of runSpaghettiDetection the update made: "layer" from
\* updateLayerTracking, "second" from the check at the end of the handler.
updatePrinterData(printerData, draw1, draw2) ==
  IF PrinterDataIgnored
       THEN /\ ret' = [op |-> "updatePrinterData", value |-> Undefined, ran |-> << >>]
            /\ UNCHANGED << isMonitoring, currentPrint, sessions, dataBuffer, recorded,
                            alerts, currentLayer, detectionHistory, truePositives,
                            falsePositives, now >>
       ELSE LET hasPos == "position" \in DOMAIN printerData
                hasTemp == "temperature" \in DOMAIN printerData
                PushPos(buf) ==
                  IF hasPos
                    THEN [buf EXCEPT !.positions =
                            Append(@, [x |-> printerData.position.x,
                                       y |-> printerData.position.y,
                                       z |-> printerData.position.z,
                                       timestamp |-> now])]
                    ELSE buf
                PushTemp(buf) ==
                  IF hasTemp THEN pushHotend(buf, printerData.temperature.hotend) ELSE buf
                buf1 == PushPos(dataBuffer)
                tracked ==
                  IF hasPos
                    THEN updateLayerTracking(printerData.position.z, currentLayer, buf1,
                                             detectionHistory, alerts, truePositives,
                                             falsePositives, now, draw1)
                    ELSE [layer |-> currentLayer, history |-> detectionHistory,
                          alerts |-> alerts, evaluated |-> FALSE]
                buf2 == PushTemp(buf1)
                secondDue == tracked.layer > 0 /\ tracked.layer % 10 = 0
                second ==
                  IF secondDue
                    THEN runSpaghettiDetection(tracked.layer, buf2, tracked.history,
                                               tracked.alerts, truePositives,
                                               falsePositives, now, draw2)
                    ELSE [history |-> tracked.history, alerts |-> tracked.alerts]
            IN  /\ ret' = [op |-> "updatePrinterData", value |-> Undefined,
                           ran |-> (IF tracked.evaluated THEN << "layer" >> ELSE << >>)
                                   \o (IF secondDue THEN << "second" >> ELSE << >>)]
                /\ dataBuffer' = buf2
                /\ recorded' = PushTemp(PushPos(recorded))
                /\ currentLayer' = tracked.layer
                \* estimateProgress
                /\ sessions' =
                     IF currentPrint # 0 /\ hasPos
                       THEN [sessions EXCEPT ![currentPrint].progress =
                               ProgressOf(printerData.position.z)]
                       ELSE sessions
                /\ detectionHistory' = second.history
                /\ alerts' = second.alerts
                /\ UNCHANGED << isMonitoring, currentPrint, truePositives,
                                falsePositives, now >>

getCurrentStatus ==
  /\ ret' = [op |-> "getCurrentStatus",
             value |->
               IF ~isMonitoring \/ currentPrint = 0
                 THEN [kind |-> "status", monitoring |-> FALSE]
                 ELSE [kind |-> "status",
                       monitoring |-> TRUE,
                       print |-> sessions[currentPrint],
                       runtime |-> now - sessions[currentPrint].startTime,
                       alerts |-> LastN(alerts, 5),
                       dataPoints |-> [temperature |-> Len(dataBuffer.temperature),
                                       vibration |-> Len(dataBuffer.vibration),
                                       filamentFlow |-> Len(dataBuffer.filamentFlow)]]]
  /\ UNCHANGED << isMonitoring, currentPrint, sessions, dataBuffer, recorded, alerts,
                  currentLayer, detectionHistory, truePositives, falsePositives, now >>

\* reportFeedback counting every report as a true positive as well
reportFeedback_countsEvery(wasActualSpaghetti) ==
  /\ truePositives' = truePositives + 1
  /\ falsePositives' = IF wasActualSpaghetti THEN falsePositives ELSE falsePositives + 1
  /\ ret' = [op |-> "reportFeedback", value |-> Undefined, arg |-> wasActualSpaghetti]
  /\ UNCHANGED << isMonitoring, currentPrint, sessions, dataBuffer, recorded, alerts,
                  currentLayer, detectionHistory, now >>

\* SpaghettiDetector.reportFeedback, reached through reportSpaghettiOutcome
reportFeedback(wasActualSpaghetti) ==
  /\ truePositives' = IF wasActualSpaghetti THEN truePositives + 1 ELSE truePositives
  /\ falsePositives' = IF wasActualSpaghetti THEN falsePositives ELSE falsePositives + 1
  /\ ret' = [op |-> "reportFeedback", value |-> Undefined, arg |-> wasActualSpaghetti]
  /\ UNCHANGED << isMonitoring, currentPrint, sessions, dataBuffer, recorded, alerts,
                  currentLayer, detectionHistory, now >>

\* SpaghettiDetector.analyzeCurrentPrint called on the detector directly
analyzeCurrentPrint(cameraData, random, sensorData, layerData, layer) ==
  LET detection == Detection(cameraData, random, sensorData, layerData, layer,
                             truePositives, falsePositives, now)
  IN  /\ detectionHistory' = PushDetection(detectionHistory, detection)
      /\ ret' = [op |-> "analyzeCurrentPrint", value |-> detection,
                 arg |-> [sensorData |-> sensorData, currentLayer |-> layer]]
      /\ UNCHANGED << isMonitoring, currentPrint, sessions, dataBuffer, recorded,
                      alerts, currentLayer, truePositives, falsePositives, now >>

\* SpaghettiDetector.getDetectionStats, reached through getSpaghettiStats
getDetectionStats ==
  /\ ret' = [op |-> "getDetectionStats",
             value |-> [totalDetections |-> Len(detectionHistory),
                        accuracy |-> getHistoricalAccuracy(truePositives, falsePositives),
                        truePositives |-> truePositives,
                        falsePositives |-> falsePositives,
                        recentDetections |-> LastN(detectionHistory, 10)]]
  /\ UNCHANGED << isMonitoring, currentPrint, sessions, dataBuffer, recorded, alerts,
                  currentLayer, detectionHistory, truePositives, falsePositives, now >>

\* getLatestValue: data = this.dataBuffer[dataType] is undefined for a
\* dataType that is no key of the buffer, and data.length then throws
getLatestValue(buf, dataType) ==
  IF dataType \notin DOMAIN buf THEN [kind |-> "TypeError"]
  ELSE [kind |-> "number",
        value |-> IF Len(buf[dataType]) > 0 THEN buf[dataType][Len(buf[dataType])] ELSE 0]

\* generateLiveReport.  The arguments of generateQualityReport are evaluated
\* first, getLatestValue('temperature') and getLatestValue('humidity') among
\* them; an exception there leaves the call.
generateLiveReport ==
  /\ ret' = [op |-> "generateLiveReport",
             value |->
               IF ~isMonitoring THEN Null
               ELSE IF getLatestValue(dataBuffer, "temperature").kind = "TypeError"
                       \/ getLatestValue(dataBuffer, "humidity").kind = "TypeError"
                 THEN [kind |-> "TypeError"]
               ELSE generateQualityReport(dataBuffer.temperature, dataBuffer.vibration,
                                          dataBuffer.filamentFlow) @@
                    [kind |-> "liveReport",
                     printId |-> sessions[currentPrint].id,
                     progress |-> sessions[currentPrint].progress,
                     runtime |-> now - sessions[currentPrint].startTime,
                     alerts |-> LastN(alerts, 10)]]
  /\ UNCHANGED << isMonitoring, currentPrint, sessions, dataBuffer, recorded, alerts,
                  currentLayer, detectionHistory, truePositives, falsePositives, now >>

\* QualityAnalyzer.getQualityGrade called with score
gradeOf(score) ==
  /\ ret' = [op |-> "getQualityGrade", arg |-> score, value |-> getQualityGrade(score)]
  /\ UNCHANGED << isMonitoring, currentPrint, sessions, dataBuffer, recorded, alerts,
                  currentLayer, detectionHistory, truePositives, falsePositives, now >>

\* the wall clock advances by d milliseconds; no call is in progress
Tick(d) ==
  /\ now' = now + d
  /\ ret' = [op |-> "tick", value |-> Undefined]
  /\ UNCHANGED << isMonitoring, currentPrint, sessions, dataBuffer, recorded, alerts,
                  currentLayer, detectionHistory, truePositives, falsePositives >>

\* ------------------------------------------------------------------------
\* Spec: the monitor driven by its callers with small inputs
\* ------------------------------------------------------------------------
PrintJobs == {[name |-> "Auto-detected print"]}

SensorInputs ==
  { [temperature |-> 260],
    [temperature |-> 170, vibration |-> 90, filamentFlow |-> 50],
    [temperature |-> 200, vibration |-> 40, filamentFlow |-> 450] }

PrinterInputs ==
  { [position |-> [x |-> 0, y |-> 0, z |-> 2], temperature |-> [hotend |-> 210, bed |-> 60]],
    [position |-> [x |-> 0, y |-> 0, z |-> 20]],
    [position |-> [x |-> 0, y |-> 0, z |-> 1]],
    [position |-> [x |-> 0, y |-> 0, z |-> 40]],
    [temperature |-> [hotend |-> 205, bed |-> 60]] }

TickSteps == {59 * Minute, 61 * Minute}

\* the layer after updateLayerTracking of printerData
LayerAfter(printerData) ==
  IF "position" \in DOMAIN printerData /\ LayerOf(printerData.position.z) > currentLayer
    THEN LayerOf(printerData.position.z) ELSE currentLayer

FirstDue(printerData) ==
  /\ isMonitoring
  /\ "position" \in DOMAIN printerData
  /\ LayerEvaluationDue(LayerOf(printerData.position.z), currentLayer)

SecondDue(printerData) ==
  /\ isMonitoring
  /\ LayerAfter(printerData) > 0
  /\ LayerAfter(printerData) % 10 = 0

DrawsIf(due, layer) == IF due THEN SampleDraws(layer) ELSE {NoDraw}

Evaluations(printerData) ==
  (IF FirstDue(printerData) THEN 1 ELSE 0) + (IF SecondDue(printerData) THEN 1 ELSE 0)

Start ==
  /\ Len(sessions) < MaxSessions
  /\ \E printJob \in PrintJobs : startMonitoring(printJob)

Stop == stopMonitoring

SensorEvent ==
  \E sensorData \in SensorInputs :
    /\ isMonitoring => \A key \in DOMAIN sensorData : Len(dataBuffer[key]) < MaxSamples
    /\ updateSensorData(sensorData)

PrinterEvent ==
  \E printerData \in PrinterInputs :
    /\ isMonitoring =>
         /\ Len(dataBuffer.positions) < MaxPositions
         /\ Len(dataBuffer.temperature) <= MaxSamples
         /\ Len(detectionHistory) + Evaluations(printerData) <= MaxDetections
    /\ \E draw1 \in DrawsIf(FirstDue(printerData), LayerAfter(printerData)),
          draw2 \in DrawsIf(SecondDue(printerData), LayerAfter(printerData)) :
         updatePrinterData(printerData, draw1, draw2)

Status == getCurrentStatus

Next == Start \/ Stop \/ SensorEvent \/ PrinterEvent \/ Status

Spec == Init /\ [][Next]_vars

\* ------------------------------------------------------------------------
\* SpecAlerts: one session, sensor events, status queries and the wall clock
\* ------------------------------------------------------------------------
Clock == \E d \in TickSteps : now + d <= MaxNow /\ Tick(d)

LiveReport == generateLiveReport

NextAlerts == Start \/ SensorEvent \/ Status \/ LiveReport \/ Clock

SpecAlerts == Init /\ [][NextAlerts]_vars

\* ------------------------------------------------------------------------
\* SpecBuffer: one long numbered stream of sensor samples, with printer
\* telemetry arriving in between
\* ------------------------------------------------------------------------
\* the k-th sample of the stream
SampleNo(k) == [temperature |-> 180 + k, vibration |-> k, filamentFlow |-> 100 + k]

RestingTelemetry ==
  [position |-> [x |-> 0, y |-> 0, z |-> 0], temperature |-> [hotend |-> 25, bed |-> 25]]

\* the k-th telemetry report: the hotend warms by one degree per report
TelemetryNo(k) == [RestingTelemetry EXCEPT !.temperature.hotend = 25 + k]

\* telemetry arrives before the stream, when the histories are exactly full,
\* and after the first eviction
TelemetryPoints == {0, BufferLimit, BufferLimit + 1}

StartLong ==
  /\ Len(sessions) < MaxLongSessions
  /\ \E printJob \in PrintJobs : startMonitoring(printJob)

SensorStream ==
  /\ isMonitoring
  /\ Len(recorded.vibration) < MaxFed
  /\ updateSensorData(SampleNo(Len(recorded.vibration) + 1))

PrinterStream ==
  /\ isMonitoring
  /\ Len(recorded.positions) < MaxLongPositions
  /\ Len(recorded.vibration) \in TelemetryPoints
  /\ updatePrinterData(TelemetryNo(Len(recorded.positions) + 1), NoDraw, NoDraw)

NextBuffer == StartLong \/ Stop \/ SensorStream \/ PrinterStream

SpecBuffer == Init /\ [][NextBuffer]_vars

\* ------------------------------------------------------------------------
\* SpecHistory: a long run of numbered evaluations on the detector, across
\* monitoring sessions
\* ------------------------------------------------------------------------
\* the structural snapshot handed to the k-th evaluation
SnapshotNo(k) ==
  [overhangs |-> k % 3, bridges |-> k % 2, smallFeatures |-> k % 5,
   solidInfill |-> IF k % 2 = 0 THEN 90 ELSE 50, supportMaterial |-> k % 4 = 0]

NoSnapshot == [lastSnapshot |-> FALSE]

NoWindows == [vibration |-> << >>, temperature |-> << >>, filamentFlow |-> << >>]

\* the number of evaluations made so far; the k-th evaluation is for layer k
Evaluated == IF detectionHistory = << >> THEN 0
             ELSE detectionHistory[Len(detectionHistory)].layer

EvaluateNumbered ==
  /\ Evaluated < MaxEvals
  /\ analyzeCurrentPrint(NoSnapshot, 0, NoWindows, SnapshotNo(Evaluated + 1), Evaluated + 1)

NextHistory == Start \/ Stop \/ EvaluateNumbered

SpecHistory == Init /\ [][NextHistory]_vars

\* ------------------------------------------------------------------------
\* SpecRisk: one evaluation of the detector on inputs drawn from wide sets,
\* after any feedback
\* ------------------------------------------------------------------------
RiskSnapshots ==
  [overhangs : {0, 1, 11}, bridges : {0, 6}, smallFeatures : {0, 1, 21},
   solidInfill : {80, 81}, supportMaterial : BOOLEAN]

RiskLayers == {3, 4}

\* sensor windows that raise no alert, each alert alone, the two
\* medium-severity alerts together, and all four
SensorWindows ==
  { NoWindows,
    [vibration |-> << 0, 0, 0, 0, 0, 0, 0, 0, 10, 10, 10, 10 >>,
     temperature |-> << >>, filamentFlow |-> << >>],
    [vibration |-> << >>, temperature |-> << 200, 200, 200, 200, 200, 230 >>,
     filamentFlow |-> << >>],
    [vibration |-> << >>, temperature |-> << >>,
     filamentFlow |-> << 50, 50, 50, 50, 50, 50 >>],
    [vibration |-> << >>, temperature |-> << >>,
     filamentFlow |-> << 450, 450, 460, 455, 440, 30 >>],
    [vibration |-> << >>, temperature |-> << 200, 200, 200, 200, 200, 230 >>,
     filamentFlow |-> << 100, 100, 100, 100, 800, 100 >>],
    [vibration |-> << 0, 0, 0, 0, 0, 0, 0, 0, 10, 10, 10, 10 >>,
     temperature |-> << 200, 200, 200, 200, 200, 230 >>,
     filamentFlow |-> << 450, 100, 0, 0, 0, 300 >>] }

Cameras == {NoSnapshot, [lastSnapshot |-> TRUE]}

Randoms == {50, 85, 95}

EvaluateAny ==
  /\ detectionHistory = << >>
  /\ \E layerData \in RiskSnapshots, layer \in RiskLayers, sensorData \in SensorWindows,
        cameraData \in Cameras, random \in Randoms :
       analyzeCurrentPrint(cameraData, random, sensorData, layerData, layer)

FeedbackAny ==
  /\ truePositives + falsePositives < MaxRiskFeedback
  /\ \E wasActualSpaghetti \in BOOLEAN : reportFeedback(wasActualSpaghetti)

NextRisk == EvaluateAny \/ FeedbackAny

SpecRisk == Init /\ [][NextRisk]_vars

\* ------------------------------------------------------------------------
\* SpecFeedback: feedback reports and statistics queries around one session
\* with one sensor sample and one first-layer evaluation
\* ------------------------------------------------------------------------
HotSample == [temperature |-> 260]

FirstLayerTelemetry == [position |-> [x |-> 0, y |-> 0, z |-> 2]]

FeedbackSensor ==
  /\ isMonitoring => recorded.temperature = << >>
  /\ updateSensorData(HotSample)

FeedbackTelemetry ==
  /\ isMonitoring => detectionHistory = << >>
  /\ \E draw \in SampleDraws(LayerOf(FirstLayerTelemetry.position.z)) :
       updatePrinterData(FirstLayerTelemetry, draw, NoDraw)

Feedback ==
  /\ truePositives + falsePositives < MaxFeedback
  /\ \E wasActualSpaghetti \in BOOLEAN : reportFeedback(wasActualSpaghetti)

Stats == getDetectionStats

NextFeedback ==
  StartLong \/ Stop \/ FeedbackSensor \/ FeedbackTelemetry \/ Feedback \/ Stats \/ Status

SpecFeedback == Init /\ [][NextFeedback]_vars

\* ------------------------------------------------------------------------
\* SpecCadence: one session fed with positions at chosen heights
\* ------------------------------------------------------------------------
\* heights in tenths of a millimetre: layers 0, 1, 5, 10, 20 and 50
CadenceHeights == {1, 2, 10, 20, 40, 100}

\* every Math.random() of an evaluation returning 0
ZeroDraw == NoDraw

CadenceStart ==
  /\ sessions = << >>
  /\ \E printJob \in PrintJobs : startMonitoring(printJob)

CadenceTelemetry ==
  /\ isMonitoring
  /\ Len(recorded.positions) < MaxCadenceUpdates
  /\ \E z \in CadenceHeights :
       updatePrinterData([position |-> [x |-> 0, y |-> 0, z |-> z]], ZeroDraw, ZeroDraw)

NextCadence == CadenceStart \/ CadenceTelemetry

SpecCadence == Init /\ [][NextCadence]_vars

\* ------------------------------------------------------------------------
\* SpecGrade: getQualityGrade on scores around its boundaries
\* ------------------------------------------------------------------------
\* scores in thousandths: every quarter point from 59 to 91.5, the values
\* just below each boundary, and the ends of the scale
GradeScores ==
  {59000 + 250 * k : k \in 0..130}
    \cup {59999, 69999, 79999, 89999} \cup {-1000, 0, 100000}

GradeAny == \E score \in GradeScores : gradeOf(score)

NextGrade == GradeAny

SpecGrade == Init /\ [][NextGrade]_vars

\* ------------------------------------------------------------------------
\* SpecFlow: one evaluation at layer 2 on flow histories of 4 to 6 samples
\* ------------------------------------------------------------------------
FlowValues == {30, 50, 100, 450}

ExampleFlow == << 450, 460, 455, 440, 30 >>

FlowHistories ==
  {ExampleFlow} \cup UNION { [1..n -> FlowValues] : n \in 4..6 }

PlainSnapshot ==
  [overhangs |-> 0, bridges |-> 0, smallFeatures |-> 0, solidInfill |-> 50,
   supportMaterial |-> FALSE]

EvaluateFlow ==
  /\ detectionHistory = << >>
  /\ \E flow \in FlowHistories :
       analyzeCurrentPrint(NoSnapshot, 0,
                           [vibration |-> << >>, temperature |-> << >>,
                            filamentFlow |-> flow],
                           PlainSnapshot, 2)

NextFlow == EvaluateFlow

SpecFlow == Init /\ [][NextFlow]_vars

\* ------------------------------------------------------------------------
\* SpecProgress: one session receiving one position, at any height the
\* parser can deliver
\* ------------------------------------------------------------------------
\* heights in tenths of a millimetre, negative ones included.  LayerOf is
\* exact for -300..210 and for the larger heights listed here; ProgressOf
\* is exact for -300..2300.
ProgressHeights == (-100..210) \cup {290, 570, 1130, 1150, 1990, 2000, 2010, 2200}

ProgressTelemetry ==
  /\ isMonitoring
  /\ recorded.positions = << >>
  /\ \E z \in ProgressHeights :
       updatePrinterData([position |-> [x |-> 0, y |-> 0, z |-> z]], ZeroDraw, ZeroDraw)

NextProgress == CadenceStart \/ ProgressTelemetry

SpecProgress == Init /\ [][NextProgress]_vars

\* ------------------------------------------------------------------------
\* SpecThreshold: one session receiving sensor samples at and next to the
\* real-time thresholds, while the wall clock advances
\* ------------------------------------------------------------------------
Absent == -1

\* readings with at most one field present, with every field at its
\* threshold, and with every field beyond it
ThresholdReadings ==
  { r \in [temperature : {Absent, 179, 180, 250, 251},
           vibration : {Absent, 80, 81},
           filamentFlow : {Absent, 99, 100}] :
      \/ Cardinality({k \in DOMAIN r : r[k] # Absent}) <= 1
      \/ r.temperature \in {180, 250} /\ r.vibration = 80 /\ r.filamentFlow = 100
      \/ r.temperature \in {179, 251} /\ r.vibration = 81 /\ r.filamentFlow = 99 }

\* the sample object holding the fields of reading that are present
SampleOf(reading) ==
  [key \in {k \in DOMAIN reading : reading[k] # Absent} |-> reading[key]]

ThresholdSensor ==
  /\ isMonitoring
  /\ \E reading \in ThresholdReadings :
       /\ \A key \in DOMAIN SampleOf(reading) : Len(recorded[key]) < MaxThresholdUpdates
       /\ updateSensorData(SampleOf(reading))

NextThreshold == CadenceStart \/ ThresholdSensor \/ Clock

SpecThreshold == Init /\ [][NextThreshold]_vars

\* ------------------------------------------------------------------------
\* SpecQuality: one session with up to two temperature readings from the
\* sensors and the hotend, then its final report
\* ------------------------------------------------------------------------
QualitySamples ==
  { [temperature |-> 200, vibration |-> 20, filamentFlow |-> 450],
    [temperature |-> 220, vibration |-> 20, filamentFlow |-> 450],
    [temperature |-> 200, vibration |-> 100, filamentFlow |-> 450],
    [temperature |-> 200, vibration |-> 120, filamentFlow |-> 400],
    [temperature |-> 180, vibration |-> 20, filamentFlow |-> 450] }

\* temperature reports "T:20.0" of a cold and "T:210.0" of a hot hotend
HotendReports ==
  { [temperature |-> [hotend |-> 20, bed |-> 20]],
    [temperature |-> [hotend |-> 210, bed |-> 60]] }

QualitySensor ==
  /\ isMonitoring
  /\ Len(recorded.temperature) < MaxQualitySamples
  /\ \E sensorData \in QualitySamples : updateSensorData(sensorData)

QualityTelemetry ==
  /\ isMonitoring
  /\ Len(recorded.temperature) < MaxQualitySamples
  /\ \E printerData \in HotendReports : updatePrinterData(printerData, NoDraw, NoDraw)

NextQuality == CadenceStart \/ QualitySensor \/ QualityTelemetry \/ Stop

SpecQuality == Init /\ [][NextQuality]_vars

\* ------------------------------------------------------------------------
\* SpecSpaghetti: one session fed a window of sensor samples, one telemetry
\* update that runs an evaluation on the buffered window, and feedback
\* ------------------------------------------------------------------------
\* the shapes of the three sensor channels over a window
SensorScripts ==
  [vibration : {"calm", "spikes"}, temperature : {"steady", "jump"},
   filamentFlow : {"steady", "low", "erratic"}]

\* the k-th sample of a script
ScriptSample(script, k) ==
  [vibration |-> IF script.vibration = "spikes" /\ k <= MaxWindow - 4 THEN 0 ELSE 10,
   temperature |-> IF script.temperature = "jump" /\ k = MaxWindow THEN 230 ELSE 200,
   filamentFlow |-> IF script.filamentFlow = "steady" THEN 450
                    ELSE IF script.filamentFlow = "low" THEN 50
                    ELSE IF k = MaxWindow - 1 THEN 800 ELSE 100]

\* heights 0.2 mm (layer 1, evaluated by the layer tracker) and 6.0 mm
\* (layer 30, evaluated by the ten-layer check)
SpaghettiHeights == {2, 60}

SpaghettiDraws(layer) ==
  { d \in AllDraws(layer) :
      /\ d.smallFeatures \in {0, 4}
      /\ d.support = d.solidInfill
      /\ d.overhangs # 1
      /\ (d.overhangs = 0) = (d.bridges = 0) }

SpaghettiSensor ==
  /\ isMonitoring
  /\ detectionHistory = << >>
  /\ Len(recorded.temperature) < MaxWindow
  /\ \E script \in SensorScripts :
       /\ \A j \in 1..Len(recorded.temperature) :
            /\ recorded.vibration[j] = ScriptSample(script, j).vibration
            /\ recorded.temperature[j] = ScriptSample(script, j).temperature
            /\ recorded.filamentFlow[j] = ScriptSample(script, j).filamentFlow
       /\ updateSensorData(ScriptSample(script, Len(recorded.temperature) + 1))

SpaghettiTelemetry ==
  /\ isMonitoring
  /\ detectionHistory = << >>
  /\ \E z \in SpaghettiHeights :
       \E draw \in SpaghettiDraws(LayerOf(z)) :
         updatePrinterData([position |-> [x |-> 0, y |-> 0, z |-> z]], draw, draw)

NextSpaghetti == CadenceStart \/ SpaghettiSensor \/ SpaghettiTelemetry \/ FeedbackAny

SpecSpaghetti == Init /\ [][NextSpaghetti]_vars

\* ------------------------------------------------------------------------
\* Properties
\* ------------------------------------------------------------------------

\* C1: in every reachable state each channel history holds at most 100
\* entries.
C1_ChannelBound == \A key \in Channels : Len(dataBuffer[key]) <= BufferLimit

\* C2: eviction is strict FIFO.  After an accepted updateSensorData every
\* channel history is exactly the last 100 values recorded in the session (all
\* of them while there are at most 100), in their arrival order.
C2_FifoEviction ==
  (ret.op = "updateSensorData" /\ isMonitoring) =>
    \A key \in Channels :
      LET buf == dataBuffer[key]
          rec == recorded[key]
      IN  /\ Len(buf) = Min(BufferLimit, Len(rec))
          /\ \A i \in 1..Len(buf) : buf[i] = rec[Len(rec) - Len(buf) + i]

\* more than 100 samples were fed and the oldest have been evicted
C2_Witness ==
  /\ ret.op = "updateSensorData"
  /\ isMonitoring
  /\ Len(recorded.vibration) = MaxFed
  /\ Len(dataBuffer.vibration) = BufferLimit
  /\ dataBuffer.vibration[1] = MaxFed - BufferLimit + 1
  /\ dataBuffer.vibration[BufferLimit] = MaxFed

\* the detection the k-th numbered evaluation produces
EvalNo(k) ==
  Detection(NoSnapshot, 0, NoWindows, SnapshotNo(k), k, truePositives, falsePositives, now)

\* C3: the detection history never holds more than 50 entries and eviction
\* is FIFO: after k evaluations it is exactly the last min(50, k) detections,
\* in evaluation order, the newest last.
C3_HistoryFifo ==
  /\ Len(detectionHistory) <= HistoryLimit
  /\ Len(detectionHistory) = Min(HistoryLimit, Evaluated)
  /\ \A i \in 1..Len(detectionHistory) :
       detectionHistory[i] = EvalNo(Evaluated - Len(detectionHistory) + i)
  /\ ret.op = "analyzeCurrentPrint" =>
       /\ detectionHistory # << >>
       /\ detectionHistory[Len(detectionHistory)] = ret.value

\* 60 evaluations were made; detections 11..60 remain
C3_Witness ==
  /\ Evaluated = 60
  /\ Len(detectionHistory) = HistoryLimit
  /\ detectionHistory[1].layer = 11
  /\ detectionHistory[HistoryLimit].layer = 60

\* C4: currentLayer never decreases.  An updatePrinterData with position z
\* sets it to floor(z / 0.2) when that is strictly greater than the current
\* layer and leaves it unchanged otherwise; nothing else changes it.
C4_LayerMonotonic ==
  [][ LET positioned == /\ ret'.op = "updatePrinterData"
                        /\ isMonitoring
                        /\ Len(recorded'.positions) = Len(recorded.positions) + 1
      IN  /\ currentLayer' >= currentLayer
          /\ positioned =>
               LET z == recorded'.positions[Len(recorded'.positions)].z
               IN  currentLayer' = IF LayerOf(z) > currentLayer THEN LayerOf(z)
                                   ELSE currentLayer
          /\ currentLayer' # currentLayer => positioned ]_vars

\* a position below the current layer arrived and the layer was kept
C4_Witness ==
  /\ ret.op = "updatePrinterData"
  /\ isMonitoring
  /\ dataBuffer.positions # << >>
  /\ LayerOf(dataBuffer.positions[Len(dataBuffer.positions)].z) < currentLayer

\* C5: stopMonitoring called while monitoring sets the session's endTime and
\* status = completed, clears isMonitoring and returns a final report for
\* that session; only startMonitoring makes the monitor monitoring and only
\* stopMonitoring makes it idle.
C5_Lifecycle ==
  [][ /\ (isMonitoring /\ ret'.op = "stopMonitoring") =>
           /\ ~isMonitoring'
           /\ currentPrint' = currentPrint
           /\ sessions'[currentPrint].endTime = now
           /\ sessions'[currentPrint].status = "completed"
           /\ ret'.value # Null
           /\ ret'.value.print = sessions'[currentPrint]
      /\ (~isMonitoring /\ isMonitoring') => ret'.op = "startMonitoring"
      /\ (isMonitoring /\ ~isMonitoring') => ret'.op = "stopMonitoring" ]_vars

\* the monitor was stopped and handed out the final report of its session
C5_Witness ==
  /\ ret.op = "stopMonitoring"
  /\ ~isMonitoring
  /\ currentPrint # 0
  /\ ret.value # Null
  /\ ret.value.print = sessions[currentPrint]
  /\ sessions[currentPrint].status = "completed"
  /\ recorded.temperature # << >>

\* C6: while the monitor is idle, updateSensorData and updatePrinterData
\* change nothing: channel histories, alert list, session records,
\* currentLayer, detection history and feedback counters stay as they are.
C6_IdleUpdatesNoOp ==
  [][ (~isMonitoring /\ ret'.op \in {"updateSensorData", "updatePrinterData"}) =>
        UNCHANGED progVars ]_vars

\* an update arrived after the session had been stopped
C6_Witness ==
  /\ ret.op \in {"updateSensorData", "updatePrinterData"}
  /\ ~isMonitoring
  /\ currentPrint # 0
  /\ sessions[currentPrint].status = "completed"

\* C7: at most one session is active, and a session that is no longer the
\* current one has been finalized (endTime set, status completed).
C7_OldSessionFinalized ==
  /\ Cardinality({i \in 1..Len(sessions) : sessions[i].status = "printing"}) <= 1
  /\ \A i \in 1..Len(sessions) :
       i # currentPrint =>
         /\ sessions[i].status = "completed"
         /\ sessions[i].endTime # NoTime

\* C8: startMonitoring called while a session is active reports an invalid
\* state and leaves the session record, the channel histories and the alert
\* list unchanged.
C8_StartRejected ==
  [][ (isMonitoring /\ ret'.op = "startMonitoring") =>
        /\ ret'.value.kind = "invalid_state"
        /\ UNCHANGED << currentPrint, sessions, dataBuffer, alerts >> ]_vars

\* C9: after the alert list is consulted (getCurrentStatus) or appended to
\* (an accepted updateSensorData or updatePrinterData), it holds no alert
\* older than one hour, and the status' recent alerts hold none either.
C9_AlertsPruned ==
  LET Fresh(al) == \A i \in 1..Len(al) : al[i].timestamp > now - OneHour
  IN  /\ (isMonitoring /\ ret.op \in {"getCurrentStatus", "updateSensorData",
                                      "updatePrinterData"}) => Fresh(alerts)
      /\ (ret.op = "getCurrentStatus" /\ ret.value.monitoring) => Fresh(ret.value.alerts)

\* C10: every Detection has 0 <= riskScore <= 1 and 0 <= confidence <= 1.
C10_ScoresInUnitInterval ==
  \A i \in 1..Len(detectionHistory) :
    LET d == detectionHistory[i]
    IN  /\ d.riskScore.d > 0
        /\ 0 <= d.riskScore.n
        /\ d.riskScore.n <= d.riskScore.d
        /\ d.confidence.d > 0
        /\ 0 <= d.confidence.n
        /\ d.confidence.n <= d.confidence.d

\* an evaluation with two high and two medium alerts after a true positive:
\* the fused confidence reaches the clamp
C10_Witness ==
  /\ detectionHistory # << >>
  /\ truePositives > 0
  /\ falsePositives = 0
  /\ Len(detectionHistory[1].alerts) = 4
  /\ detectionHistory[1].confidence = Rat(1, 1)
  /\ detectionHistory[1].riskScore.n > 0

\* C11: the accuracy multiplier is 0.8 while no feedback has been reported
\* and truePositives / (truePositives + falsePositives) afterwards (3 true
\* and 1 false positive give 0.75), and getDetectionStats reports that value.
C11_AccuracyMultiplier ==
  LET total == truePositives + falsePositives
      IsExpected(a) ==
        /\ a.d > 0
        /\ IF total = 0 THEN 10 * a.n = 8 * a.d ELSE total * a.n = truePositives * a.d
  IN  /\ IsExpected(getHistoricalAccuracy(truePositives, falsePositives))
      /\ ret.op = "getDetectionStats" => IsExpected(ret.value.accuracy)
      /\ (truePositives = 3 /\ falsePositives = 1) =>
           getHistoricalAccuracy(truePositives, falsePositives) = [n |-> 3, d |-> 4]

\* the statistics were queried after 3 true-positive and 1 false-positive
\* reports
C11_Witness ==
  /\ ret.op = "getDetectionStats"
  /\ truePositives = 3
  /\ falsePositives = 1
  /\ ret.value.accuracy = [n |-> 3, d |-> 4]

\* C12: reportFeedback(b) adds exactly 1 to truePositives when b and to
\* falsePositives otherwise, leaves the other counter and the detection
\* history unchanged, and no other operation changes either counter.
C12_FeedbackFrame ==
  [][ /\ ret'.op = "reportFeedback" =>
           /\ truePositives' = truePositives + (IF ret'.arg THEN 1 ELSE 0)
           /\ falsePositives' = falsePositives + (IF ret'.arg THEN 0 ELSE 1)
           /\ detectionHistory' = detectionHistory
      /\ ret'.op # "reportFeedback" => UNCHANGED << truePositives, falsePositives >> ]_vars

\* a false positive was reported after a true positive, with a detection in
\* the history
C12_Witness ==
  /\ ret.op = "reportFeedback"
  /\ ~ret.arg
  /\ truePositives = 1
  /\ falsePositives = 1
  /\ detectionHistory # << >>

\* s is the end of t
IsSuffix(s, t) ==
  /\ Len(s) <= Len(t)
  /\ \A i \in 1..Len(s) : s[i] = t[Len(t) - Len(s) + i]

\* C13: startMonitoring and stopMonitoring leave the detection history
\* unchanged; a session begins with every channel history and the alert list
\* empty, and while it runs the channel histories hold only values recorded
\* in that session.
C13_SessionScope ==
  [][ /\ ret'.op \in {"startMonitoring", "stopMonitoring"} =>
           detectionHistory' = detectionHistory
      /\ ret'.op = "startMonitoring" =>
           /\ \A key \in Channels : dataBuffer'[key] = << >>
           /\ alerts' = << >>
      /\ isMonitoring' =>
           \A key \in Channels : IsSuffix(dataBuffer'[key], recorded'[key]) ]_vars

\* a second session has just begun after one that left a detection behind
C13_Witness ==
  /\ ret.op = "startMonitoring"
  /\ Len(sessions) = 2
  /\ detectionHistory # << >>
  /\ alerts = << >>
  /\ \A key \in Channels : dataBuffer[key] = << >>

\* C14: an accepted updatePrinterData runs the layer tracker's evaluation
\* exactly when its position advances currentLayer to a layer L with L <= 5
\* or L mod 20 = 0; every evaluation an update runs appends one detection.
C14_LayerCadence ==
  [][ (ret'.op = "updatePrinterData" /\ isMonitoring) =>
        LET L == LayerOf(recorded'.positions[Len(recorded'.positions)].z)
            layerRan == \E i \in 1..Len(ret'.ran) : ret'.ran[i] = "layer"
        IN  /\ Len(recorded'.positions) = Len(recorded.positions) + 1
            /\ layerRan <=> (L > currentLayer /\ (L <= 5 \/ L % 20 = 0))
            /\ Len(detectionHistory') = Len(detectionHistory) + Len(ret'.ran) ]_vars

\* the first position of the session advanced the layer to 50 and the layer
\* tracker ran no evaluation
C14_Witness ==
  /\ ret.op = "updatePrinterData"
  /\ isMonitoring
  /\ Len(recorded.positions) = 1
  /\ currentLayer = 50
  /\ ret.ran = << "second" >>

\* C15: the second cadence runs an evaluation on the 10th, 20th, 30th ...
\* updatePrinterData accepted in the session and on no other.
C15_EveryTenthUpdate ==
  [][ (ret'.op = "updatePrinterData" /\ isMonitoring) =>
        LET secondRan == \E i \in 1..Len(ret'.ran) : ret'.ran[i] = "second"
        IN  secondRan <=> (Len(recorded'.positions) % 10 = 0) ]_vars

\* C16: while monitoring, generateLiveReport returns a report with the
\* session metadata and never fails.
C16_LiveReportNeverFails ==
  (ret.op = "generateLiveReport" /\ isMonitoring) =>
    /\ ret.value.kind = "liveReport"
    /\ ret.value.printId = sessions[currentPrint].id
    /\ ret.value.progress = sessions[currentPrint].progress

C18_LowFlowRule ==
  ret.op = "analyzeCurrentPrint" =>
    LET flow == ret.arg.sensorData.filamentFlow
        al == ret.value.alerts
        lowFlow == \E i \in 1..Len(al) :
                     /\ al[i].type = "low_flow"
                     /\ al[i].severity = "high"
                     /\ al[i].confidence = 90
    IN  /\ Len(flow) >= 5 => (lowFlow <=> SumSeq(LastN(flow, 5)) < 5 * 100)
        /\ flow = ExampleFlow => lowFlow

\* C19: reportFeedback with an empty detection history reports an invalid
\* state and leaves both counters unchanged.
C19_FeedbackRejected ==
  [][ (detectionHistory = << >> /\ ret'.op = "reportFeedback") =>
        /\ ret'.value.kind = "invalid_state"
        /\ UNCHANGED << truePositives, falsePositives >> ]_vars

\* a temperature reading delivered by the sensor stream (180 + k) rather
\* than by the printer telemetry (25 + k)
FromSensor(v) == v > 180

FromPrinter(v) == v <= 180

\* C20: in any interleaving of the two producers every event is applied as
\* a whole (the three sensor channels always end with the same sample) and
\* the readings each producer contributed to the temperature history, and
\* the positions, appear in the order that producer delivered them.
C20_ProducerOrder ==
  LET t == dataBuffer.temperature
      s == SelectSeq(t, FromSensor)
      p == SelectSeq(t, FromPrinter)
      v == dataBuffer.vibration
      f == dataBuffer.filamentFlow
      pos == dataBuffer.positions
  IN  isMonitoring =>
        /\ \A i \in 1..(Len(s) - 1) : s[i + 1] = s[i] + 1
        /\ \A i \in 1..(Len(p) - 1) : p[i + 1] = p[i] + 1
        /\ \A i \in 1..(Len(v) - 1) : v[i + 1] = v[i] + 1
        /\ Len(v) = Len(f)
        /\ \A i \in 1..Len(v) : f[i] = 100 + v[i]
        /\ v # << >> => /\ v[Len(v)] = Len(recorded.vibration)
                        /\ s # << >>
                        /\ s[Len(s)] = 180 + v[Len(v)]
        /\ p # << >> => p[Len(p)] = 25 + Len(recorded.positions)
        /\ Len(pos) = Len(recorded.positions)

\* two telemetry reports arrived around the 101st sensor sample; both hotend
\* readings are in the temperature history among the sensor readings
C20_Witness ==
  /\ isMonitoring
  /\ SelectSeq(dataBuffer.temperature, FromPrinter) = << 26, 27 >>
  /\ Len(recorded.vibration) > BufferLimit
  /\ Len(SelectSeq(dataBuffer.temperature, FromSensor)) = BufferLimit - 1

\* C21: one updatePrinterData appends at most one Detection to the
\* detection history, also when the layer-based and the second cadence both
\* apply (advancing to layer 20).
C21_OneEvaluationPerUpdate ==
  [][ ret'.op = "updatePrinterData" =>
        Len(detectionHistory') <= Len(detectionHistory) + 1 ]_vars

\* C27: isMonitoring holds exactly when there is a current session whose
\* status is 'printing'; the session of a monitoring monitor is neither
\* completed nor ended.
C27_MonitoringIffPrinting ==
  /\ isMonitoring <=> (currentPrint # 0 /\ sessions[currentPrint].status = "printing")
  /\ isMonitoring => sessions[currentPrint].endTime = NoTime

\* after a start repeated while monitoring and a stop: the monitor is idle
\* and its session completed
C27_Witness ==
  /\ ~isMonitoring
  /\ Len(sessions) = 2
  /\ currentPrint = 2
  /\ sessions[1].status = "printing"
  /\ sessions[2].status = "completed"
  /\ ret.op = "stopMonitoring"

\* C28: every session begins with currentLayer = 0, whatever layer the
\* previous session reached.
C28_LayerResetOnStart ==
  [][ ret'.op = "startMonitoring" => currentLayer' = 0 ]_vars

\* C22: after an accepted updatePrinterData with position z the session's
\* progress is round(min(100, z / 200 * 100)), an integer from 0 to 100,
\* for every z, negative ones included.
C22_ProgressRange ==
  (ret.op = "updatePrinterData" /\ isMonitoring /\ recorded.positions # << >>) =>
    LET z == recorded.positions[Len(recorded.positions)].z
        progress == sessions[currentPrint].progress
    IN  /\ progress = ProgressOf(z)
        /\ 0 <= progress
        /\ progress <= 100

\* the real-time alerts a sample violates, in the order of the checks
ViolatedRules(sample, status) ==
  LET Has(f) == f \in DOMAIN sample
  IN  (IF Has("temperature") /\ sample.temperature > 250
         THEN << [type |-> "warning", value |-> sample.temperature] >> ELSE << >>)
      \o (IF Has("temperature") /\ sample.temperature < 180 /\ status = "printing"
            THEN << [type |-> "error", value |-> sample.temperature] >> ELSE << >>)
      \o (IF Has("vibration") /\ sample.vibration > 80
            THEN << [type |-> "warning", value |-> sample.vibration] >> ELSE << >>)
      \o (IF Has("filamentFlow") /\ sample.filamentFlow < 100
            THEN << [type |-> "error", value |-> sample.filamentFlow] >> ELSE << >>)

\* the sample an accepted updateSensorData step delivered: the values by
\* which the recorded channels grew
Delivered(before, after) ==
  [key \in {k \in {"temperature", "vibration", "filamentFlow"} :
              Len(after[k]) = Len(before[k]) + 1} |-> after[key][Len(after[key])]]

\* alerts not older than one hour
StillRecent(alert) == alert.timestamp > now - OneHour

\* C26: while monitoring, one updateSensorData appends exactly one alert
\* per violated rule and nothing else (temperature > 250 warning,
\* temperature < 180 while printing error, vibration > 80 warning,
\* filamentFlow < 100 error); values at a threshold and absent fields
\* produce none.  The alerts it keeps from before are those of the last
\* hour, in their order.
C26_RealTimeAlerts ==
  [][ (ret'.op = "updateSensorData" /\ isMonitoring) =>
        LET sample == Delivered(recorded, recorded')
            due == ViolatedRules(sample, sessions[currentPrint].status)
            kept == SelectSeq(alerts, StillRecent)
        IN  /\ Len(alerts') = Len(kept) + Len(due)
            /\ \A i \in 1..Len(kept) : alerts'[i] = kept[i]
            /\ \A i \in 1..Len(due) :
                 /\ alerts'[Len(kept) + i].type = due[i].type
                 /\ alerts'[Len(kept) + i].value = due[i].value
                 /\ alerts'[Len(kept) + i].timestamp = now ]_vars

\* a sample with every value exactly at its threshold arrived and added no
\* alert
C26_Witness ==
  /\ ret.op = "updateSensorData"
  /\ isMonitoring
  /\ recorded.temperature = << 250 >>
  /\ recorded.vibration = << 80 >>
  /\ recorded.filamentFlow = << 100 >>
  /\ alerts = << >>

\* C23: every quality report has 0 <= overallScore <= 100, whatever the
\* temperature, vibration and flow histories hold.
C23_OverallScoreRange ==
  (ret.op = "stopMonitoring" /\ ret.value.kind = "finalReport") =>
    /\ 0 <= ret.value.overallScore
    /\ ret.value.overallScore <= 100

\* C24: in every quality report overallScore is the rounded mean of the
\* three sub-scores reported in its metrics, also when a sub-score is 0.
C24_OverallScoreIsMean ==
  (ret.op = "stopMonitoring" /\ ret.value.kind = "finalReport") =>
    LET m == ret.value.metrics
    IN  ret.value.overallScore =
          (m.temperatureStability + m.vibrationLevel + m.layerQuality + 1500) \div 3000

\* C25: the recommendation of every Detection is immediate_intervention when
\* riskScore > 0.8 or confidence > 0.8 or a sensor alert has severity high,
\* otherwise monitor_closely when riskScore > 0.5, otherwise
\* continue_monitoring.
C25_Recommendation ==
  \A i \in 1..Len(detectionHistory) :
    LET d == detectionHistory[i]
    IN  d.recommendation =
          IF \/ RatGT(d.riskScore, Rat(8, 10))
             \/ RatGT(d.confidence, Rat(8, 10))
             \/ \E k \in 1..Len(d.alerts) : IsHigh(d.alerts[k])
            THEN "immediate_intervention"
          ELSE IF RatGT(d.riskScore, Rat(5, 10))
            THEN "monitor_closely"
          ELSE "continue_monitoring"

\* a Detection with a high-severity low_flow alert and a risk score of at
\* most 0.8, recommending immediate_intervention
C25_Witness ==
  \E i \in 1..Len(detectionHistory) :
    LET d == detectionHistory[i]
    IN  /\ \E k \in 1..Len(d.alerts) :
             d.alerts[k].type = "low_flow" /\ IsHigh(d.alerts[k])
        /\ ~RatGT(d.riskScore, Rat(8, 10))
        /\ d.recommendation = "immediate_intervention"

IsSpaghettiAlert(alert) == alert.type = "spaghetti_risk"

\* C29: while truePositives = 0 and falsePositives >= 1, every evaluation
\* run by updatePrinterData yields confidence 0 and adds no spaghetti_risk
\* alert to the session's alert list.
C29_NoAlertAfterFalsePositives ==
  [][ (truePositives = 0 /\ falsePositives >= 1 /\ ret'.op = "updatePrinterData") =>
        /\ \A i \in (Len(detectionHistory) + 1)..Len(detectionHistory') :
             detectionHistory'[i].confidence.n = 0
        /\ SelectSeq(alerts', IsSpaghettiAlert) = SelectSeq(alerts, IsSpaghettiAlert) ]_vars

\* an evaluation at full risk with a high-severity alert, run after only
\* false positives were reported: its confidence is 0 and no spaghetti_risk
\* alert was added
C29_Witness ==
  /\ ret.op = "updatePrinterData"
  /\ truePositives = 0
  /\ falsePositives >= 1
  /\ detectionHistory # << >>
  /\ detectionHistory[1].riskScore = Rat(1, 1)
  /\ \E k \in 1..Len(detectionHistory[1].alerts) : IsHigh(detectionHistory[1].alerts[k])
  /\ detectionHistory[1].confidence.n = 0
  /\ SelectSeq(alerts, IsSpaghettiAlert) = << >>

\* C30: every spaghetti_risk alert of the session's alert list comes from a
\* Detection with confidence > 0.7 and carries the recommendation
\* immediate_intervention.
C30_AlertMeansIntervention ==
  \A i \in 1..Len(alerts) :
    IsSpaghettiAlert(alerts[i]) =>
      /\ RatGT(alerts[i].confidence, Rat(7, 10))
      /\ alerts[i].recommendation = "immediate_intervention"
      /\ \E k \in 1..Len(detectionHistory) :
           /\ detectionHistory[k].confidence = alerts[i].confidence
           /\ detectionHistory[k].recommendation = alerts[i].recommendation
           /\ detectionHistory[k].timestamp = alerts[i].timestamp

\* a spaghetti_risk alert from a Detection without any high-severity alert:
\* its risk score is above 0.8
C30_Witness ==
  /\ detectionHistory # << >>
  /\ \A k \in 1..Len(detectionHistory[1].alerts) : ~IsHigh(detectionHistory[1].alerts[k])
  /\ RatGT(detectionHistory[1].riskScore, Rat(8, 10))
  /\ \E i \in 1..Len(alerts) :
       /\ IsSpaghettiAlert(alerts[i])
       /\ alerts[i].recommendation = "immediate_intervention"
====
